---- MODULE Spec2Model ----
(***************************************************************************)
(* The health status indicator of the Wevolve landing page.                *)
(*                                                                         *)
(* Two variants of the page component exist: Home (Next, Tailwind) and App *)
(* (Vite, MUI).  Both hold two pieces of component state, healthStatus and *)
(* loading, issue GET {API_BASE}/health from an effect with an empty       *)
(* dependency list and render one status badge.  App is rendered by an     *)
(* entry point that wraps it in React.StrictMode.                          *)
(***************************************************************************)
EXTENDS Integers, Sequences, FiniteSets, TLC

\* Bounds of the model.
MaxMounts == 2      \* mounts of the page component in one run

VARIABLES
    variant,        \* which page component is served: "Home" or "App"
    strictDev,      \* the build double-invokes effects (React.StrictMode, development build)
    mounted,        \* id of the mounted component instance, 0 when none is mounted
    mounts,         \* number of instances mounted so far (instance ids are 1..mounts)
    healthStatus,   \* useState(null) of the mounted instance
    loading,        \* useState(true) of the mounted instance
    requests,       \* every axios.get issued so far, in issue order
    assigns,        \* history: setHealthStatus calls applied to the mounted instance
    writer,         \* history: request whose handler last wrote the mounted instance's state
    mid,            \* history: the mounted instance's state between the two setter calls of
                    \* the handler that wrote it last
    logged,         \* entries on the console: logged errors and unhandled rejections
    last            \* history: the step taken last

vars == <<variant, strictDev, mounted, mounts, healthStatus, loading,
          requests, assigns, writer, mid, logged, last>>

----------------------------------------------------------------------------
\* Values

Undefined == "undefined"

Variants == {"Home", "App"}

\* A JavaScript value as far as the component looks at it: null, or an object
\* with the optional fields status and message.
NullValue == [tag |-> "null", status |-> Undefined, message |-> Undefined]

Obj(s, m) == [tag |-> "object", status |-> s, message |-> m]

\* An offline record without its message.
OfflineRecordNoMessage == Obj("offline", Undefined)

\* { status: 'offline', message: 'Backend not running' }
OfflineRecord == Obj("offline", "Backend not running")

\* Bodies a 2xx response can carry (res.data).
ResponseBodies ==
    { Obj("healthy", Undefined),
      Obj("degraded", Undefined),
      Obj("Healthy", Undefined),
      Obj(Undefined, Undefined),
      NullValue }

\* healthStatus?.status
StatusOf(h) == IF h.tag = "null" THEN Undefined ELSE h.status

----------------------------------------------------------------------------
\* Rendering of the API status badge

\* The badge labels (the leading status emoji of the two resolved labels is
\* left out).
ConnectingText == "Connecting..."
ConnectedText == "Backend Connected"
OfflineText == "Backend Offline"

\* A label that shows the stored message when there is one.
BadgeTextShowsMessage(l, h) ==
    IF l THEN ConnectingText
    ELSE IF StatusOf(h) = "healthy" THEN ConnectedText
    ELSE IF h.message # Undefined THEN h.message ELSE OfflineText

\* loading ? 'Connecting...' : healthStatus?.status === 'healthy' ? connected : offline
BadgeText(l, h) ==
    IF l THEN ConnectingText
    ELSE IF StatusOf(h) = "healthy" THEN ConnectedText ELSE OfflineText

\* Home: className chosen by loading, then by status
HomeStyle(l, h) ==
    IF l THEN "neutral"
    ELSE IF StatusOf(h) = "healthy" THEN "positive" ELSE "negative"

\* App: Chip sx borderColor / color chosen by status alone
AppStyle(l, h) ==
    IF StatusOf(h) = "healthy" THEN "positive" ELSE "negative"

Badge(v, l, h) ==
    [text |-> BadgeText(l, h),
     style |-> IF v = "Home" THEN HomeStyle(l, h) ELSE AppStyle(l, h)]

NoBadge == [text |-> "", style |-> "none"]

\* What the page shows.
Display == IF mounted = 0 THEN NoBadge ELSE Badge(variant, loading, healthStatus)

----------------------------------------------------------------------------
\* Requests

NewRequest(owner) ==
    [owner |-> owner, outcome |-> "pending", handled |-> FALSE,
     thenRuns |-> 0, catchRuns |-> 0]

ReqIds == DOMAIN requests

IssuedBy(i) == {r \in ReqIds : requests[r].owner = i}

InFlight == {r \in ReqIds : requests[r].outcome = "pending"}

\* Number of times the effect's setup runs in a commit.  The dependency list
\* is [], so only the mount commit runs it; under StrictMode in a development
\* build React runs setup, cleanup and setup again on mount.
EffectRuns(isMount, strict) ==
    IF isMount THEN (IF strict THEN 2 ELSE 1) ELSE 0

RECURSIVE Issue(_, _, _)
Issue(reqs, owner, n) ==
    IF n = 0 THEN reqs ELSE Issue(Append(reqs, NewRequest(owner)), owner, n - 1)

\* The requests after a commit of instance i that is not its mount: the
\* effect runs as often as its dependency list allows.
AfterCommit(reqs, i) == Issue(reqs, i, EffectRuns(FALSE, strictDev))

\* A cleanup that aborts the instance's pending requests.
CleanupAborts(reqs, i) ==
    [r \in DOMAIN reqs |->
        IF reqs[r].owner = i /\ reqs[r].outcome = "pending"
        THEN [reqs[r] EXCEPT !.outcome = "rejected", !.handled = TRUE]
        ELSE reqs[r]]

\* The effect returns no cleanup function: tearing the instance down leaves
\* its requests as they are.
Cleanup(reqs, i) == reqs

\* A setter that writes whatever instance is mounted.
SetStateAnyInstance(owner, cur, new) == new

\* A setter called from a completion handler reaches the state of the
\* instance whose effect created the handler; React drops it when that
\* instance is no longer mounted.
SetState(owner, cur, new) == IF owner = mounted THEN new ELSE cur

\* The state of an instance no handler has written.
NoHandlerYet == [healthStatus |-> NullValue, loading |-> TRUE, assigned |-> FALSE]

\* A handler that clears loading before it stores the status.
BetweenLoadingFirst(h, l, assigned, new) ==
    [healthStatus |-> h, loading |-> FALSE, assigned |-> assigned]

\* The instance's state between the two setter calls of a handler, from its
\* state (h, l, assigned) before the handler: setHealthStatus(new) has been
\* called, setLoading(false) has not.
Between(h, l, assigned, new) ==
    [healthStatus |-> new, loading |-> l, assigned |-> TRUE]

\* The console after a completion handler ran.  Neither handler logs; the
\* failure handler ignores the rejection reason and returns normally, so the
\* chain ends fulfilled and no unhandled rejection is reported.
Reported(log) == log

\* A success handler that throws after its setters.
ThenHandlerThrowsAlways == TRUE

\* The success handler calls two setters, neither of which throws, so the
\* promise returned by .then fulfils and .catch passes it through.
ThenHandlerThrows == FALSE

----------------------------------------------------------------------------
\* Initial state: the page is about to be served, nothing is mounted.

Init ==
    /\ variant \in Variants
    /\ strictDev \in BOOLEAN
    /\ (strictDev => variant = "App")
    /\ mounted = 0
    /\ mounts = 0
    /\ healthStatus = NullValue
    /\ loading = TRUE
    /\ requests = <<>>
    /\ assigns = 0
    /\ writer = 0
    /\ mid = NoHandlerYet
    /\ logged = 0
    /\ last = [kind |-> "init", applied |-> FALSE]

\* The component mounts: useState initialisers, first render, effect.
Mount ==
    /\ mounted = 0
    /\ mounts < MaxMounts
    /\ mounts' = mounts + 1
    /\ mounted' = mounts + 1
    /\ healthStatus' = NullValue
    /\ loading' = TRUE
    /\ requests' = Issue(requests, mounts + 1, EffectRuns(TRUE, strictDev))
    /\ assigns' = 0
    /\ writer' = 0
    /\ mid' = NoHandlerYet
    /\ last' = [kind |-> "mount", applied |-> FALSE]
    /\ UNCHANGED <<variant, strictDev, logged>>

\* A re-render of the mounted instance (parent re-render): state is kept and
\* the effect runs as its dependency list says.
Rerender ==
    /\ mounted # 0
    /\ requests' = AfterCommit(requests, mounted)
    /\ last' = [kind |-> "render", applied |-> FALSE]
    /\ UNCHANGED <<variant, strictDev, mounted, mounts, healthStatus, loading,
                   assigns, writer, mid, logged>>

\* The component unmounts.  The effect returns no cleanup, so no request is
\* canceled; the instance's state is gone.
Unmount ==
    /\ mounted # 0
    /\ mounted' = 0
    /\ healthStatus' = NullValue
    /\ loading' = TRUE
    /\ assigns' = 0
    /\ writer' = 0
    /\ mid' = NoHandlerYet
    /\ requests' = Cleanup(requests, mounted)
    /\ last' = [kind |-> "unmount", applied |-> FALSE]
    /\ UNCHANGED <<variant, strictDev, mounts, logged>>

\* The backend answers request r with a 2xx response.
Fulfil(r) ==
    /\ r \in ReqIds
    /\ requests[r].outcome = "pending"
    /\ requests' = [requests EXCEPT ![r].outcome = "fulfilled"]
    /\ last' = [kind |-> "fulfil", applied |-> FALSE]
    /\ UNCHANGED <<variant, strictDev, mounted, mounts, healthStatus, loading,
                   assigns, writer, mid, logged>>

\* Request r fails: network error, non-2xx status, or a timeout reported by
\* the transport.
Reject(r) ==
    /\ r \in ReqIds
    /\ requests[r].outcome = "pending"
    /\ requests' = [requests EXCEPT ![r].outcome = "rejected"]
    /\ last' = [kind |-> "reject", applied |-> FALSE]
    /\ UNCHANGED <<variant, strictDev, mounted, mounts, healthStatus, loading,
                   assigns, writer, mid, logged>>

\* setHealthStatus(h); setLoading(false) as called by a handler of request r.
\* The two updates are applied together and the instance re-renders.
Write(r, h) ==
    /\ healthStatus' = SetState(requests[r].owner, healthStatus, h)
    /\ loading' = SetState(requests[r].owner, loading, FALSE)
    /\ assigns' = SetState(requests[r].owner, assigns, assigns + 1)
    /\ writer' = SetState(requests[r].owner, writer, r)
    /\ mid' = SetState(requests[r].owner, mid,
                       Between(healthStatus, loading, assigns > 0, h))

\* The promise of a fulfilled request runs the reactions of
\* .then(res => ...).catch(() => ...): the success handler with res.data =
\* body, and the failure handler too if the success handler throws.
ThenHandler(r, body) ==
    /\ r \in ReqIds
    /\ requests[r].outcome = "fulfilled"
    /\ ~requests[r].handled
    /\ LET alsoCatch == ThenHandlerThrows
           ran == [requests EXCEPT
                     ![r].handled = TRUE,
                     ![r].thenRuns = @ + 1,
                     ![r].catchRuns = IF alsoCatch THEN @ + 1 ELSE @]
       IN /\ requests' = IF requests[r].owner = mounted
                       THEN AfterCommit(ran, mounted) ELSE ran
          /\ Write(r, IF alsoCatch THEN OfflineRecord ELSE body)
    /\ last' = [kind |-> "then", applied |-> requests[r].owner = mounted]
    /\ logged' = Reported(logged)
    /\ UNCHANGED <<variant, strictDev, mounted, mounts>>

\* A failure handler that stores the offline record and leaves loading set.
CatchHandlerKeepsLoading(r) ==
    /\ r \in ReqIds
    /\ requests[r].outcome = "rejected"
    /\ ~requests[r].handled
    /\ LET ran == [requests EXCEPT ![r].handled = TRUE, ![r].catchRuns = @ + 1]
       IN requests' = IF requests[r].owner = mounted
                       THEN AfterCommit(ran, mounted) ELSE ran
    /\ healthStatus' = SetState(requests[r].owner, healthStatus, OfflineRecord)
    /\ assigns' = SetState(requests[r].owner, assigns, assigns + 1)
    /\ writer' = SetState(requests[r].owner, writer, r)
    /\ mid' = SetState(requests[r].owner, mid,
                       Between(healthStatus, loading, assigns > 0, OfflineRecord))
    /\ last' = [kind |-> "catch", applied |-> requests[r].owner = mounted]
    /\ logged' = Reported(logged)
    /\ UNCHANGED <<variant, strictDev, mounted, mounts, loading>>

\* The promise of a rejected request skips .then's success handler and runs
\* the failure handler.
CatchHandler(r) ==
    /\ r \in ReqIds
    /\ requests[r].outcome = "rejected"
    /\ ~requests[r].handled
    /\ LET ran == [requests EXCEPT ![r].handled = TRUE, ![r].catchRuns = @ + 1]
       IN requests' = IF requests[r].owner = mounted
                       THEN AfterCommit(ran, mounted) ELSE ran
    /\ Write(r, OfflineRecord)
    /\ last' = [kind |-> "catch", applied |-> requests[r].owner = mounted]
    /\ logged' = Reported(logged)
    /\ UNCHANGED <<variant, strictDev, mounted, mounts>>

Next ==
    \/ Mount
    \/ Rerender
    \/ Unmount
    \/ \E r \in ReqIds : Fulfil(r)
    \/ \E r \in ReqIds : Reject(r)
    \/ \E r \in ReqIds : \E body \in ResponseBodies : ThenHandler(r, body)
    \/ \E r \in ReqIds : CatchHandler(r)

Spec == Init /\ [][Next]_vars

\* The event loop runs the reactions of every settled promise.  Nothing in
\* the code makes a request settle: axios.get is called without a timeout.
RunHandlers ==
    \E r \in ReqIds :
        \/ \E body \in ResponseBodies : ThenHandler(r, body)
        \/ CatchHandler(r)

LiveSpec == Init /\ [][Next]_vars /\ WF_vars(RunHandlers)

----------------------------------------------------------------------------
\* Properties

PositiveBadge == [text |-> ConnectedText, style |-> "positive"]
NegativeBadge == [text |-> OfflineText, style |-> "negative"]
NeutralBadge == [text |-> ConnectingText, style |-> "neutral"]

\* The style class each badge text belongs with.
StyleOfText(t) ==
    IF t = ConnectingText THEN "neutral"
    ELSE IF t = ConnectedText THEN "positive" ELSE "negative"

\* C1: every mount issues the health request exactly once.
C1_OncePerMount == \A i \in 1..mounts : Cardinality(IssuedBy(i)) = 1

\* C2: right after the failure handler of a request of the mounted instance,
\* healthStatus is the offline record, loading is false and the badge is the
\* negative "Backend Offline" badge.
C2_RejectGivesOffline ==
    (last.kind = "catch" /\ last.applied) =>
        /\ healthStatus = [tag |-> "object", status |-> "offline",
                           message |-> "Backend not running"]
        /\ loading = FALSE
        /\ Display = NegativeBadge

C2_Witness == last.kind = "catch" /\ last.applied /\ mounted # 0

\* C3: while loading is true the badge reads "Connecting..." in the neutral
\* style, in both variants.
C3_LoadingNeutral == (mounted # 0 /\ loading) => Display = NeutralBadge

\* C4: once loading is false the badge is the positive badge iff the status
\* is exactly "healthy" and the negative badge otherwise; text and style
\* agree in every state.
C4_BadgeRule ==
    mounted # 0 =>
        /\ (~loading => Display = IF StatusOf(healthStatus) = "healthy"
                                   THEN PositiveBadge ELSE NegativeBadge)
        /\ Display.style = StyleOfText(Display.text)

\* The part of C4 about resolved states alone.
ResolvedBadgeRule ==
    (mounted # 0 /\ ~loading) =>
        Display = IF StatusOf(healthStatus) = "healthy"
                  THEN PositiveBadge ELSE NegativeBadge

\* C5: within one page view healthStatus is assigned at most once, and
\* loading is false exactly when it has been assigned.
C5_AssignedOnce ==
    mounted # 0 => (assigns <= 1 /\ (loading <=> assigns = 0))

\* C6: a re-mounted instance starts from null / loading, issues exactly one
\* request, and its state is written only by handlers of its own requests.
C6_RemountFresh ==
    (mounts >= 2 /\ mounted = mounts) =>
        /\ Cardinality(IssuedBy(mounted)) = 1
        /\ (assigns = 0 => healthStatus = NullValue /\ loading)
        /\ (writer # 0 => requests[writer].owner = mounted)

\* C7: at most one health request is in flight at any time.
C7_AtMostOneInFlight == Cardinality(InFlight) <= 1

\* C8: unmounting cancels no request, a settled request's handler can still
\* run after the unmount, and a handler that runs for an instance that is no
\* longer mounted changes neither the display nor the mounted instance's state.
C8_LateResultDiscarded ==
    [][ /\ ((mounted # 0 /\ mounted' = 0) => requests' = requests)
        /\ \A r \in ReqIds :
              (~requests[r].handled /\ requests'[r].handled
                  /\ requests[r].owner # mounted)
              => /\ requests[r].outcome # "pending"
                 /\ Display' = Display
                 /\ healthStatus' = healthStatus
                 /\ loading' = loading
                 /\ mounted' = mounted ]_vars

C8_Witness ==
    /\ last.kind \in {"then", "catch"}
    /\ ~last.applied
    /\ mounted # 0
    /\ loading

\* C9 as claimed: every mounted instance eventually leaves the loading state
\* (or is unmounted first).
C9_AlwaysResolves == (mounted # 0) ~> (mounted = 0 \/ ~loading)

\* C9 amended: once a request of the mounted instance has settled, that
\* instance eventually leaves the loading state or is unmounted first (another
\* instance is mounted only after mounted has been 0).
C9_SettledResolves ==
    (mounted # 0 /\ \E r \in IssuedBy(mounted) : requests[r].outcome # "pending")
        ~> (mounted = 0 \/ ~loading)

C9_Witness ==
    /\ mounted # 0
    /\ ~loading
    /\ last.kind \in {"then", "catch"}
    /\ last.applied

\* C10: no request runs both handlers or one handler twice; a handled request
\* ran the success handler iff it fulfilled and the failure handler iff it
\* rejected; a status stored by a success handler is a response body, not the
\* offline record of the same request's failure handler.
C10_ExactlyOneHandler ==
    /\ \A r \in ReqIds :
          LET q == requests[r] IN
          /\ q.thenRuns + q.catchRuns = (IF q.handled THEN 1 ELSE 0)
          /\ (q.thenRuns = 1 => q.outcome = "fulfilled")
          /\ (q.catchRuns = 1 => q.outcome = "rejected")
    /\ (writer # 0 /\ requests[writer].thenRuns = 1) => healthStatus \in ResponseBodies

C10_Witness ==
    /\ \E r \in ReqIds : requests[r].thenRuns = 1 /\ writer = r
    /\ \E r \in ReqIds : requests[r].catchRuns = 1

\* C11: a failure handler changes nothing but healthStatus and loading of its
\* instance and reports nothing; the badge after it is the negative "Backend
\* Offline" badge, does not show the stored message, and is the badge shown
\* after a 2xx response whose status is not "healthy".
C11_FailureSwallowed ==
    [][ \A r \in ReqIds :
          /\ (requests[r].catchRuns = 0 /\ requests'[r].catchRuns = 1)
             => /\ logged' = logged
                /\ <<variant, strictDev, mounted, mounts>>'
                      = <<variant, strictDev, mounted, mounts>>
                /\ requests[r].owner = mounted
                   => /\ Display' = NegativeBadge
                      /\ Display'.text # healthStatus'.message
                      /\ \A b \in ResponseBodies :
                            StatusOf(b) # "healthy"
                            => Display' = Badge(variant, FALSE, b)
          /\ (requests[r].thenRuns = 0 /\ requests'[r].thenRuns = 1
                 /\ requests[r].owner = mounted
                 /\ StatusOf(healthStatus') # "healthy")
             => Display' = NegativeBadge ]_vars

C11_Witness ==
    /\ last.kind = "catch"
    /\ last.applied
    /\ healthStatus.message = "Backend not running"
    /\ Display = NegativeBadge
    /\ logged = 0

\* C12: in every state, and between the two setter calls of every handler,
\* loading = false implies that a completion handler of one of the instance's
\* own requests has assigned healthStatus; a null healthStatus with loading =
\* false is a stored response body, never the unassigned initial value.
C12_StatusBeforeLoading ==
    mounted # 0 =>
        /\ ~loading => /\ assigns >= 1
                       /\ writer \in IssuedBy(mounted)
                       /\ requests[writer].handled
                       /\ (healthStatus = NullValue => requests[writer].thenRuns = 1)
        /\ ~mid.loading => mid.assigned

C12_Witness ==
    /\ mounted # 0
    /\ ~loading
    /\ Display = NegativeBadge
    /\ mid.loading
    /\ mid.assigned
    /\ mid.healthStatus = healthStatus

\* C13: in every state the two variants, holding the same (healthStatus,
\* loading), show the same badge text and the same badge style class.
C13_VariantsEquivalent ==
    mounted # 0 =>
        Badge("Home", loading, healthStatus) = Badge("App", loading, healthStatus)

\* The parts of C13 that hold: the texts agree in every state, and the styles
\* agree once loading is false.
VariantsAgreeResolved ==
    mounted # 0 =>
        /\ Badge("Home", loading, healthStatus).text
              = Badge("App", loading, healthStatus).text
        /\ ~loading => HomeStyle(loading, healthStatus) = AppStyle(loading, healthStatus)

====
